---- MODULE Spec2Model ----
(***************************************************************************)
(* Course-selection checker (deshboard/src/App.tsx): text normalisation,   *)
(* subject-group canonicalisation, Roman-numeral hierarchy parsing, the    *)
(* prerequisite table, the per-student checks and the XLSX export.         *)
(*                                                                         *)
(* A JavaScript string is a sequence of characters; a character is named   *)
(* by a short token (see the character table below).  A nullable value     *)
(* (string | null, number | null) is a sequence of at most one element:    *)
(* <<>> is null and <<v>> is the value v.                                  *)
(***************************************************************************)
EXTENDS Integers, Sequences, FiniteSets, TLC

VARIABLES
    pc,         \* position of the run under check
    raw,        \* Text: the raw subject-group label handed to canonGroup
    canon1,     \* Text: canonGroup(raw)
    canon2,     \* Text: canonGroup(canon1)
    canonOther, \* Text: canonGroup of the other UI variant on raw
    norm1,      \* Text: normCourseName(raw)
    norm2,      \* Text: normCourseName(norm1)
    pname,      \* Parse: the course name handed to parseHierLevel
    parsed,     \* Parse: parseHierLevel(pname)
    rawPrereqs, \* the entries of prereqs.json, in Object.entries order
    PREREQS,    \* the Map built from rawPrereqs when the module is loaded
    courses,    \* Checks: the course names of one student's list
    checks,     \* Checks: what buildChecks / the detail view made of them
    sheet,      \* the rows of the workbook the user is about to upload
    data,       \* App state: data.rows
    byStudent,  \* App memo: byStudent.list
    klass,      \* App state: the selected class, or null
    students,   \* App memo: studentsInClass
    selected,   \* App state: the key of the selected student, or null
    query,      \* App state: the text of the search box
    kpis,       \* what the Kpis component shows, or null when not rendered
    aoa         \* the array of arrays exportAll last wrote to the sheet

vars == <<pc, raw, canon1, canon2, canonOther, norm1, norm2, pname, parsed,
          rawPrereqs, PREREQS, courses, checks,
          sheet, data, byStudent, klass, students, selected, query,
          kpis, aoa>>
textVars == <<raw, canon1, canon2, canonOther, norm1, norm2>>
parseVars == <<pname, parsed>>
checkVars == <<rawPrereqs, PREREQS, courses, checks>>
appVars == <<sheet, data, byStudent, klass, students, selected, query,
             kpis, aoa>>

---------------------------------------------------------------------------
(* Bounds of the model. *)
MaxTextLen == 4
MaxNameLen == 5
MaxCourses == 3

---------------------------------------------------------------------------
(* Nullable values. *)
Null == <<>>
Some(v) == <<v>>

(* Generic sequence helpers. *)
Min(S) == CHOOSE x \in S : \A y \in S : x <= y
Max(S) == CHOOSE x \in S : \A y \in S : x >= y

RECURSIVE Flatten(_)
Flatten(ss) == IF ss = <<>> THEN <<>> ELSE Head(ss) \o Flatten(Tail(ss))

(* The subsequence of s at the positions of idx, in ascending order. *)
AtPositions(s, idx) ==
    [k \in 1..Cardinality(idx) |->
        s[CHOOSE i \in idx : Cardinality({j \in idx : j < i}) = k - 1]]

StringsUpTo(alphabet, n) == UNION {[1..k -> alphabet] : k \in 0..n}

---------------------------------------------------------------------------
(* Character table.                                                        *)
(*   "sp" U+0020   "isp" U+3000 IDEOGRAPHIC SPACE   "nl" U+000A            *)
(*   "mid" U+00B7  "dotop" U+22C5  "bullet" U+2022  "bulop" U+2219         *)
(*   "kdot" U+30FB  "hkdot" U+FF65  "araea" U+318D  "araeaJ" U+119E        *)
(*   "/" U+002F  "fslash" U+FF0F  "(" ")"                                  *)
(*   "dlow" U+2017 DOUBLE LOW LINE  "cdlow" U+0333 COMBINING DOUBLE LOW    *)
(*   "R1".."R10" U+2160..U+2169 (Roman numeral characters)                 *)
(*   "I" "V" "X" "s" "1" "2" ASCII; every other token is one Hangul        *)
(*   syllable, named by its romanisation ("gyo" = U+AD50).                 *)

(* String.prototype.trim and the regex class \s agree on white space. *)
IsWs(c) == c \in {"sp", "isp", "nl"}
(* The regex '.' matches everything but a line terminator. *)
IsLineTerminator(c) == c = "nl"

(* String.prototype.normalize('NFKC') of one character. *)
NFKCChar(c) ==
    CASE c = "isp"    -> <<"sp">>
      [] c = "hkdot"  -> <<"kdot">>
      [] c = "araea"  -> <<"araeaJ">>
      [] c = "fslash" -> <<"/">>
      [] c = "dlow"   -> <<"sp", "cdlow">>
      [] c = "R1"     -> <<"I">>
      [] c = "R2"     -> <<"I", "I">>
      [] c = "R3"     -> <<"I", "I", "I">>
      [] c = "R4"     -> <<"I", "V">>
      [] c = "R5"     -> <<"V">>
      [] c = "R6"     -> <<"V", "I">>
      [] c = "R7"     -> <<"V", "I", "I">>
      [] c = "R8"     -> <<"V", "I", "I", "I">>
      [] c = "R9"     -> <<"I", "X">>
      [] c = "R10"    -> <<"X">>
      [] OTHER        -> <<c>>

(* No two characters of the table compose, so NFKC acts character-wise. *)
NFKC(s) == Flatten([i \in 1..Len(s) |-> NFKCChar(s[i])])

RECURSIVE TrimStart(_)
TrimStart(s) == IF s # <<>> /\ IsWs(Head(s)) THEN TrimStart(Tail(s)) ELSE s

RECURSIVE TrimEnd(_)
TrimEnd(s) ==
    IF s # <<>> /\ IsWs(s[Len(s)]) THEN TrimEnd(SubSeq(s, 1, Len(s) - 1)) ELSE s

Trim(s) == TrimEnd(TrimStart(s))

(* s.replace(/\s+/g, '') *)
StripWs(s) == SelectSeq(s, LAMBDA c : ~IsWs(c))

(* s.replace(/[...]/g, to): every character of the class becomes `to`. *)
ReplaceClass(s, class, to) ==
    [i \in 1..Len(s) |-> IF s[i] \in class THEN to ELSE s[i]]

(* s.replace(/\s*d\s*/g, d): a white-space character goes exactly when the  *)
(* maximal white-space run it lies in touches an occurrence of d.          *)
RemoveWsAround(s, d) ==
    LET n == Len(s)
        leftOf(i)  == \E j \in (i+1)..n :
                          s[j] = d /\ \A k \in i..(j-1) : IsWs(s[k])
        rightOf(i) == \E j \in 1..(i-1) :
                          s[j] = d /\ \A k \in (j+1)..i : IsWs(s[k])
    IN  AtPositions(s, {i \in 1..n : ~(IsWs(s[i]) /\ (leftOf(i) \/ rightOf(i)))})

\* The paren-span replace of line 51: inside every parenthesised span the
\* white space is removed.  The leftmost "(" that has a ")" after it opens a
\* match, which ends at the first ")" after it; the scan goes on behind it.
RECURSIVE StripParenWs(_)
StripParenWs(s) ==
    LET opens == {i \in 1..Len(s) : s[i] = "("}
    IN  IF opens = {} THEN s
        ELSE LET i == Min(opens)
                 closes == {j \in (i+1)..Len(s) : s[j] = ")"}
             IN  IF closes = {} THEN s
                 ELSE LET j == Min(closes)
                      IN  SubSeq(s, 1, i)
                            \o StripWs(SubSeq(s, i + 1, j - 1))
                            \o <<")">>
                            \o StripParenWs(SubSeq(s, j + 1, Len(s)))

---------------------------------------------------------------------------
(* canonGroup *)
Gita == <<"gi", "ta">>
GroupTarget ==
    <<"gi", "sul", "kdot", "ga", "jeong", "/", "je", "2", "oe", "guk", "eo",
      "/", "han", "mun", "/", "gyo", "yang">>
MiddleDots == {"mid", "dotop", "bullet", "bulop", "kdot", "araea"}

AliasesOtherVariant ==
    { GroupTarget,
      <<"gyo", "yang">>,
      <<"je", "2", "oe", "guk", "eo">>,
      <<"han", "mun">>,
      <<"gi", "sul", "kdot", "ga", "jeong">>,
      <<"gi", "sul", "kdot", "ga", "jeong", "/", "jeong", "bo">> }

AliasesWithoutOne ==
    { GroupTarget,
      <<"gyo", "yang">>,
      <<"je", "2", "oe", "guk", "eo">>,
      <<"je", "2", "oe", "guk", "eo", "/", "han", "mun">>,
      <<"gi", "sul", "kdot", "ga", "jeong">>,
      <<"gi", "sul", "kdot", "ga", "jeong", "/", "jeong", "bo">> }

Aliases ==
    { GroupTarget,
      <<"gyo", "yang">>,
      <<"je", "2", "oe", "guk", "eo">>,
      <<"je", "2", "oe", "guk", "eo", "/", "han", "mun">>,
      <<"han", "mun">>,
      <<"gi", "sul", "kdot", "ga", "jeong">>,
      <<"gi", "sul", "kdot", "ga", "jeong", "/", "jeong", "bo">> }

(* The chain of lines 41-51, applied to the trimmed label. *)
NormalizeGroup(s) ==
    StripParenWs(
        RemoveWsAround(
            RemoveWsAround(
                ReplaceClass(ReplaceClass(NFKC(s), MiddleDots, "kdot"),
                             {"fslash"}, "/"),
                "kdot"),
            "/"))

(* Lines 55-67: the comparison against the aliases. *)
canonOf(normalized) ==
    IF StripWs(normalized) \in Aliases THEN GroupTarget ELSE normalized

canonTrimmed(s) == IF s = <<>> THEN Gita ELSE canonOf(NormalizeGroup(s))

canonGroup(r) == IF r = Null THEN Gita ELSE canonTrimmed(Trim(r[1]))

(* canonGroup of the other UI variant: the same chain, its own aliases. *)
NormalizeGroupOtherVariant(s) ==
    StripParenWs(
        RemoveWsAround(
            RemoveWsAround(
                ReplaceClass(ReplaceClass(NFKC(s), MiddleDots, "kdot"),
                             {"fslash"}, "/"),
                "kdot"),
            "/"))

canonOfOtherVariant(normalized) ==
    IF StripWs(normalized) \in AliasesOtherVariant THEN GroupTarget
    ELSE normalized

canonTrimmedOtherVariant(s) ==
    IF s = <<>> THEN Gita
    ELSE canonOfOtherVariant(NormalizeGroupOtherVariant(s))

canonGroupOtherVariant(r) ==
    IF r = Null THEN Gita ELSE canonTrimmedOtherVariant(Trim(r[1]))

(* normCourseName *)
normCourseName(nm) ==
    IF nm = Null \/ nm = Some(<<>>) THEN Null
    ELSE Some(StripParenWs(NFKC(Trim(nm[1]))))

(* parseHierLevel *)
(* The alternatives of the regular expression, lines 75-76. *)
asciiRoman ==
    { <<"V", "I", "I", "I">>, <<"V", "I", "I">>, <<"V", "I">>, <<"I", "V">>,
      <<"I", "X">>, <<"I", "I", "I">>, <<"I", "I">>, <<"I">>, <<"X">> }
unicodeRoman ==
    { <<"R1">>, <<"R2">>, <<"R3">>, <<"R4">>, <<"R5">>,
      <<"R6">>, <<"R7">>, <<"R8">>, <<"R9">>, <<"R10">> }

(* The table `map` of lines 82-87: numeral -> level, 0 when not a key. *)
RomanLevel(key) ==
    CASE key \in {<<"I">>, <<"R1">>}                      -> 1
      [] key \in {<<"I", "I">>, <<"R2">>}                 -> 2
      [] key \in {<<"I", "I", "I">>, <<"R3">>}            -> 3
      [] key \in {<<"I", "V">>, <<"R4">>}                 -> 4
      [] key \in {<<"V">>, <<"R5">>}                      -> 5
      [] key \in {<<"V", "I">>, <<"R6">>}                 -> 6
      [] key \in {<<"V", "I", "I">>, <<"R7">>}            -> 7
      [] key \in {<<"V", "I", "I", "I">>, <<"R8">>}       -> 8
      [] key \in {<<"I", "X">>, <<"R9">>}                 -> 9
      [] key \in {<<"X">>, <<"R10">>}                     -> 10
      [] OTHER                                            -> 0

(* What follows the lazy group in the pattern of line 77.  The pattern is  *)
(* written in a template literal, where the escape \s is the letter s: the *)
(* group is followed by any number of letters s and then by one numeral.   *)
MatchesTail(t) ==
    \E j \in 0..Len(t) :
        /\ \A i \in 1..j : t[i] = "s"
        /\ SubSeq(t, j + 1, Len(t)) \in (unicodeRoman \cup asciiRoman)

(* The lengths the lazy group (.*?) can take; the match takes the least. *)
GroupLengths(s) ==
    { k \in 0..Len(s) :
        /\ \A i \in 1..k : ~IsLineTerminator(s[i])
        /\ MatchesTail(SubSeq(s, k + 1, Len(s))) }

(* Lines 88-93: the level of the numeral and the base, or null. *)
parseResult(base, level) ==
    IF level = 0 THEN Null
    ELSE IF base = <<>> THEN Null
    ELSE Some([base |-> base, level |-> level])

(* Lines 80-91: m1 is the text of the lazy group, s the whole name. *)
parseGroup(s, m1) ==
    parseResult(Trim(m1), RomanLevel(Trim(SubSeq(s, Len(m1) + 1, Len(s)))))

(* Lines 78-79: null when the pattern does not match. *)
parseMatch(s, ks) ==
    IF ks = {} THEN Null ELSE parseGroup(s, SubSeq(s, 1, Min(ks)))

parseNormalized(s) == parseMatch(s, GroupLengths(s))

parseHierLevel(nm) ==
    IF nm = Null \/ nm = Some(<<>>) THEN Null
    ELSE parseNormalized(NFKC(Trim(nm[1])))

---------------------------------------------------------------------------
(* Text building. *)
DigitChar(d) == <<"0", "1", "2", "3", "4", "5", "6", "7", "8", "9">>[d + 1]

RECURSIVE Digits(_)
Digits(n) ==
    IF n < 10 THEN <<DigitChar(n)>>
    ELSE Digits(n \div 10) \o <<DigitChar(n % 10)>>

(* String(n) of an integer. *)
NumStr(n) == IF n < 0 THEN <<"-">> \o Digits(0 - n) ELSE Digits(n)

(* Array.prototype.join *)
RECURSIVE Join(_, _)
Join(parts, sep) ==
    IF parts = <<>> THEN <<>>
    ELSE IF Len(parts) = 1 THEN parts[1]
    ELSE parts[1] \o sep \o Join(Tail(parts), sep)

(* A Map is the sequence of its entries [k, v] in insertion order. *)
MapHas(m, k) == \E i \in 1..Len(m) : m[i].k = k
MapGet(m, k) == m[CHOOSE i \in 1..Len(m) : m[i].k = k].v
MapSet(m, k, v) ==
    IF MapHas(m, k)
    THEN [i \in 1..Len(m) |-> IF m[i].k = k THEN [k |-> k, v |-> v] ELSE m[i]]
    ELSE Append(m, [k |-> k, v |-> v])

(* The literal texts of the violation string. *)
LitNurak == <<":", "sp", "nu", "rak", "sp">>
LitCommaSp == <<",", "sp">>
LitSemiSp == <<";", "sp">>
LitBar == <<"sp", "|", "sp">>
LitRomanPrefix ==
    <<"ro", "ma", "ja", "sp", "wi", "gye", "sp", "wi", "ban", ":", "sp">>
LitSeonsu == <<":", "sp", "seon", "su", "sp", "nu", "rak", "sp", "->", "sp">>
LitRatio ==
    <<"gi", "cho", "gyo", "gwa", "sp", "bi", "yul", "sp", "cho", "gwa">>

---------------------------------------------------------------------------
(* PREREQS: the table of prereqs.json, normalised when the module loads. *)
normReqs(arr) ==
    SelectSeq([i \in 1..Len(arr) |-> normCourseName(Some(arr[i]))],
              LAMBDA x : x # Null /\ x # Some(<<>>))

Unwrap(opts) == [i \in 1..Len(opts) |-> opts[i][1]]

(* The same, but an entry already there is kept. *)
loadEntryFirstWins(m, nk, arr) ==
    IF nk = Null \/ nk = Some(<<>>) THEN m
    ELSE IF MapHas(m, nk[1]) THEN m
    ELSE MapSet(m, nk[1], Unwrap(normReqs(arr)))

(* One turn of the loop of lines 115-120. *)
loadEntry(m, nk, arr) ==
    IF nk = Null \/ nk = Some(<<>>) THEN m
    ELSE MapSet(m, nk[1], Unwrap(normReqs(arr)))

RECURSIVE LoadPrereqs(_, _)
LoadPrereqs(entries, m) ==
    IF entries = <<>> THEN m
    ELSE LoadPrereqs(Tail(entries),
                     loadEntry(m, normCourseName(Some(Head(entries).k)),
                               Head(entries).v))

---------------------------------------------------------------------------
(* buildChecks and the checks of the detail view.  `names` are the course  *)
(* names of the student's list (gwamokMyeong, '' when the row had none):   *)
(* the checks read nothing else of it.                                     *)

levelsOf(m, base) == IF MapHas(m, base) THEN MapGet(m, base) ELSE {}

(* Lines 326-330: one turn of the loop that fills byBase. *)
addLevel(m, ph) ==
    IF ph = Null THEN m
    ELSE MapSet(m, ph[1].base, levelsOf(m, ph[1].base) \cup {ph[1].level})

(* byBase: base -> set of levels, in the order the bases were first seen. *)
RECURSIVE byBaseOf(_, _)
byBaseOf(names, m) ==
    IF names = <<>> THEN m
    ELSE byBaseOf(Tail(names), addLevel(m, parseHierLevel(Some(Head(names)))))

(* for (let i=1;i<max;i++) if (!set.has(i)) missing.push(i) *)
RECURSIVE missingFrom(_, _, _)
missingFrom(i, max, set) ==
    IF i >= max THEN <<>>
    ELSE (IF i \in set THEN <<>> ELSE <<i>>) \o missingFrom(i + 1, max, set)

missingLevelsFromTwo(set) == missingFrom(2, Max(set), set)

(* The same, but nothing for a single level. *)
missingLevelsWhenSeveral(set) ==
    IF Cardinality(set) = 1 THEN <<>> ELSE missingFrom(1, Max(set), set)

missingLevels(set) == missingFrom(1, Max(set), set)

findingsOf(bb) ==
    [i \in 1..Len(bb) |-> [base |-> bb[i].k, missing |-> missingLevels(bb[i].v)]]

withGap(all) == SelectSeq(all, LAMBDA f : Len(f.missing) > 0)

(* The sequence findings [base, missing], one per base with a gap. *)
seqViolations(names) == withGap(findingsOf(byBaseOf(names, <<>>)))

(* have: the student's normalised course names. *)
haveOf(names) ==
    { x[1] : x \in { normCourseName(Some(names[i])) : i \in 1..Len(names) }
                      \ {Null, Some(<<>>)} }

missOf(held, have) ==
    [i \in 1..Len(held) |->
        [course |-> held[i].k,
         missing |-> SelectSeq(held[i].v, LAMBDA r : r \notin have)]]

explicitAgainstNoHeldTest(have, prereqs) == withGap(missOf(prereqs, have))

(* Lines 344-348: the entries of PREREQS whose course is held and that     *)
(* miss a required name, in the order of PREREQS.                          *)
explicitAgainst(have, prereqs) ==
    withGap(missOf(SelectSeq(prereqs, LAMBDA e : e.k \in have), have))

(* The explicit findings [course, missing]. *)
explicitViolations(names, prereqs) == explicitAgainst(haveOf(names), prereqs)

numStrs(ns) == [j \in 1..Len(ns) |-> NumStr(ns[j])]

seqPart(f) == f.base \o LitNurak \o Join(numStrs(f.missing), LitCommaSp)

seqPartsOf(v) == [i \in 1..Len(v) |-> seqPart(v[i])]

explicitPart(f) == f.course \o LitSeonsu \o Join(f.missing, LitCommaSp)

explicitPartsOf(v) == [i \in 1..Len(v) |-> explicitPart(v[i])]

(* The same, but the clause is there without a part too. *)
romanClauseAlways(seqParts) == <<LitRomanPrefix \o Join(seqParts, LitSemiSp)>>

romanClause(seqParts) ==
    IF Len(seqParts) > 0
    THEN <<LitRomanPrefix \o Join(seqParts, LitSemiSp)>> ELSE <<>>

explicitClause(explicitParts) ==
    IF Len(explicitParts) > 0 THEN <<Join(explicitParts, LitSemiSp)>> ELSE <<>>

buildChecks(names, prereqs) ==
    Join(romanClause(seqPartsOf(seqViolations(names)))
           \o explicitClause(explicitPartsOf(explicitViolations(names, prereqs))),
         LitBar)

---------------------------------------------------------------------------
(* Rows, student keys and sorting.                                         *)
(* A row is a record of optional values, as readRowsFromSheet returns it:  *)
(* numbers are whatever Number() made of the cell, strings are trimmed and *)
(* not empty.                                                              *)
HasKey(r) == r.hakNyeon # Null /\ r.ban # Null /\ r.beonho # Null

(* `${g}-${c}-${n}` *)
studentKey(g, c, n) ==
    NumStr(g) \o <<"-">> \o NumStr(c) \o <<"-">> \o NumStr(n)

keyOf(r) == studentKey(r.hakNyeon[1], r.ban[1], r.beonho[1])

(* `${g}-${c}` *)
classKey(g, c) == NumStr(g) \o <<"-">> \o NumStr(c)

(* The same with a missing credit counting as 1. *)
creditMissingAsOne(r) == IF r.hakjeom = Null THEN 1 ELSE r.hakjeom[1]

(* r.학점 || 0 *)
credit(r) == IF r.hakjeom = Null THEN 0 ELSE r.hakjeom[1]

(* r.과목명 || '' *)
courseName(r) == IF r.gwamokMyeong = Null THEN <<>> ELSE r.gwamokMyeong[1]

(* String.prototype.split with a one-character separator. *)
RECURSIVE Split(_, _)
Split(s, sep) ==
    IF \A i \in 1..Len(s) : s[i] # sep THEN <<s>>
    ELSE LET p == Min({i \in 1..Len(s) : s[i] = sep})
         IN  <<SubSeq(s, 1, p - 1)>> \o Split(SubSeq(s, p + 1, Len(s)), sep)

DigitValue(c) == CHOOSE d \in 0..9 : DigitChar(d) = c

(* Number(s) of a string of decimal digits; Number('') is 0.  The pieces   *)
(* of a key split at '-' hold nothing but digits.                          *)
RECURSIVE Number(_)
Number(s) ==
    IF s = <<>> THEN 0
    ELSE 10 * Number(SubSeq(s, 1, Len(s) - 1)) + DigitValue(s[Len(s)])

(* const [a, b, ...] = key.split('-').map(Number), the first n pieces. *)
firstNumbers(pieces, n) == [i \in 1..n |-> Number(pieces[i])]

keyNumbers(key, n) == firstNumbers(Split(key, "-"), n)

(* Lexicographic order of two sequences of integers. *)
LexLess(a, b) ==
    \E i \in 1..(Len(b)) :
        /\ i <= Len(a) + 1
        /\ \A j \in 1..(i - 1) : a[j] = b[j]
        /\ (i = Len(a) + 1 \/ a[i] < b[i])

(* Array.prototype.sort, which is stable, under a comparator that orders   *)
(* the elements by their sort keys: rank[i] is the sort key of s[i], the   *)
(* keys are compared lexicographically, and elements with equal keys stay  *)
(* in their order.  (a-b)||(c-d)||(e-f) orders by the triple <<a, c, e>>.  *)
comesBefore(rank, j, i) ==
    LexLess(rank[j], rank[i]) \/ (rank[j] = rank[i] /\ j < i)

StableSort(s, rank) ==
    LET pos == [i \in 1..Len(s) |->
                  1 + Cardinality({j \in 1..Len(s) : comesBefore(rank, j, i)})]
    IN  [p \in 1..Len(s) |-> s[CHOOSE i \in 1..Len(s) : pos[i] = p]]

(* localeCompare(_, 'ko') on the characters of the model: punctuation,     *)
(* digits, Hangul syllables in code-point order, then Latin letters.       *)
CollationOrder ==
    << "sp", "-", ",", ";", ":", "(", ")", "/", "kdot", "|",
       "0", "1", "2", "3", "4", "5", "6", "7", "8", "9",
       "ga", "gyo", "guk", "gi", "kim", "mun", "mul", "mi", "bak", "bo",
       "bun", "sa", "su", "sul", "yang", "eo", "yeong", "oe", "lee",
       "jeok", "jeong", "je", "ta", "hak", "han", "hwa",
       "I", "V", "X" >>

CollRank(c) == CHOOSE i \in 1..Len(CollationOrder) : CollationOrder[i] = c

CollKey(s) == [i \in 1..Len(s) |-> CollRank(s[i])]

CollKeys(ss) == [i \in 1..Len(ss) |-> CollKey(ss[i])]

sortKo(ss) == StableSort(ss, CollKeys(ss))

(* Set.prototype.add, a Set being the sequence of its members in           *)
(* insertion order.                                                        *)
SetAdd(s, x) == IF \E i \in 1..Len(s) : s[i] = x THEN s ELSE Append(s, x)

(* grp.get(g) || 0 *)
getOrZero(m, k) == IF MapHas(m, k) THEN MapGet(m, k) ELSE 0

RECURSIVE SumSeq(_)
SumSeq(ns) == IF ns = <<>> THEN 0 ELSE Head(ns) + SumSeq(Tail(ns))

MapKeys(m) == [i \in 1..Len(m) |-> m[i].k]
MapValues(m) == [i \in 1..Len(m) |-> m[i].v]

---------------------------------------------------------------------------
(* isKoreanHistory, on the 과목명 of a list entry ('' when the row had     *)
(* none).                                                                  *)
KoreanHistoryNames ==
    { <<"han", "guk", "sa">>, <<"han", "guk", "sa", "1">>,
      <<"han", "guk", "sa", "2">> }

isKoreanHistory(name) ==
    IF name = <<>> THEN FALSE ELSE NFKC(Trim(name)) \in KoreanHistoryNames

---------------------------------------------------------------------------
(* exportAll.                                                              *)
foundation == { <<"guk", "eo">>, <<"su", "hak">>, <<"yeong", "eo">> }

RECURSIVE groupSetOf(_, _)
groupSetOf(rows, acc) ==
    IF rows = <<>> THEN acc
    ELSE groupSetOf(Tail(rows), SetAdd(acc, canonGroup(Head(rows).gyogwa)))

(* The same, but in the order of first occurrence. *)
groupsUnsorted(rows) == groupSetOf(rows, <<>>)

groupsOf(rows) == sortKo(groupSetOf(rows, <<>>))

newEntry(r) ==
    [hakNyeon |-> r.hakNyeon[1], ban |-> r.ban[1], beonho |-> r.beonho[1],
     ireum |-> r.ireum, list |-> <<>>]

entryOf(m, key, r) == IF MapHas(m, key) THEN MapGet(m, key) ELSE newEntry(r)

pushRow(ent, r) == [ent EXCEPT !.list = Append(@, r)]

addToStu(m, key, r) == MapSet(m, key, pushRow(entryOf(m, key, r), r))

RECURSIVE byStuOf(_, _)
byStuOf(rows, m) ==
    IF rows = <<>> THEN m
    ELSE IF HasKey(Head(rows))
    THEN byStuOf(Tail(rows), addToStu(m, keyOf(Head(rows)), Head(rows)))
    ELSE byStuOf(Tail(rows), m)

LitHeaderHead ==
    << <<"hak", "nyeon">>, <<"ban">>, <<"beon", "ho">>, <<"i", "reum">> >>

LitHeaderTail ==
    << <<"jeon", "che", "i", "su", "hak", "jeom">>,
       <<"gi", "cho", "gyo", "gwa", "hak", "jeom">>,
       <<"han", "guk", "sa", "hak", "jeom">>,
       <<"gi", "cho", "gyo", "gwa", "+", "han", "guk", "sa", "bi", "yul",
         "(", "%", ")">>,
       <<"jeom", "geom">> >>

(* The same cells with the group columns last. *)
headerGroupsLast(groups) == LitHeaderHead \o LitHeaderTail \o groups

headerOf(groups) == LitHeaderHead \o groups \o LitHeaderTail

rankKeys(keys) == [i \in 1..Len(keys) |-> keyNumbers(keys[i], 3)]

sortedKeys(keys) == StableSort(keys, rankKeys(keys))

listEntry(r) ==
    [gyogwa |-> canonGroup(r.gyogwa), gwamokMyeong |-> courseName(r),
     hakjeom |-> credit(r), gwamokHakNyeon |-> r.gwamokHakNyeon,
     gwamokHakgi |-> r.gwamokHakgi]

listOf(rs) == [i \in 1..Len(rs) |-> listEntry(rs[i])]

(* The same, but a later row of a group replaces the sum so far. *)
RECURSIVE grpOfOverwriting(_, _)
grpOfOverwriting(list, m) ==
    IF list = <<>> THEN m
    ELSE grpOfOverwriting(Tail(list),
                          MapSet(m, Head(list).gyogwa, Head(list).hakjeom))

RECURSIVE grpOf(_, _)
grpOf(list, m) ==
    IF list = <<>> THEN m
    ELSE grpOf(Tail(list),
               MapSet(m, Head(list).gyogwa,
                      getOrZero(m, Head(list).gyogwa) + Head(list).hakjeom))

totalOf(list) == SumSeq([i \in 1..Len(list) |-> list[i].hakjeom])

baseOnlyOf(list) ==
    SumSeq([i \in 1..Len(list) |->
              IF list[i].gyogwa \in foundation THEN list[i].hakjeom ELSE 0])

khOnlyOf(list) ==
    SumSeq([i \in 1..Len(list) |->
              IF isKoreanHistory(list[i].gwamokMyeong)
              THEN list[i].hakjeom ELSE 0])

(* Truncation of num / den. *)
RoundRatioDown(num, den) == num \div den

(* Math.round(x) of a rational x = num / den that is not negative: the     *)
(* nearest integer, a half going up.                                       *)
RoundRatio(num, den) == (2 * num + den) \div (2 * den)

(* pct, held in tenths of a percent: the cell shows pctOf / 10. *)
pctOf(baseOnly, khOnly, total) ==
    IF total > 0 THEN RoundRatio((baseOnly + khOnly) * 1000, total) ELSE 0

hierarchyParts(hierarchyCheck) ==
    IF hierarchyCheck # <<>> THEN <<hierarchyCheck>> ELSE <<>>

ratioParts(pct) == IF pct > 500 THEN <<LitRatio>> ELSE <<>>

checkOf(hierarchyCheck, pct) ==
    Join(hierarchyParts(hierarchyCheck) \o ratioParts(pct), LitBar)

nameCell(s) == IF s.ireum = Null THEN <<>> ELSE s.ireum[1]

groupCells(grp, groups) == [i \in 1..Len(groups) |-> getOrZero(grp, groups[i])]

namesOf(list) == [i \in 1..Len(list) |-> list[i].gwamokMyeong]

rowWith(s, cells, total, baseOnly, khOnly, pct, hierarchyCheck) ==
    <<s.hakNyeon, s.ban, s.beonho, nameCell(s)>>
      \o cells
      \o <<total, baseOnly, khOnly, pct, checkOf(hierarchyCheck, pct)>>

rowCells(s, cells, total, baseOnly, khOnly, hierarchyCheck) ==
    rowWith(s, cells, total, baseOnly, khOnly,
            pctOf(baseOnly, khOnly, total), hierarchyCheck)

rowFrom(s, groups, list, prereqs) ==
    rowCells(s, groupCells(grpOf(list, <<>>), groups), totalOf(list),
             baseOnlyOf(list), khOnlyOf(list),
             buildChecks(namesOf(list), prereqs))

rowOf(s, groups, prereqs) == rowFrom(s, groups, listOf(s.list), prereqs)

rowsFor(m, keys, groups, prereqs) ==
    [i \in 1..Len(keys) |-> rowOf(MapGet(m, keys[i]), groups, prereqs)]

aoaOf(m, groups, prereqs) ==
    <<headerOf(groups)>> \o rowsFor(m, sortedKeys(MapKeys(m)), groups, prereqs)

exportAll(rows, prereqs) == aoaOf(byStuOf(rows, <<>>), groupsOf(rows), prereqs)

---------------------------------------------------------------------------
(* byStudent.list                                                          *)
newStudent(key, r) ==
    [key |-> key, hakNyeon |-> r.hakNyeon[1], ban |-> r.ban[1],
     beonho |-> r.beonho[1], ireum |-> r.ireum, rows |-> <<r>>]

addToStudent(m, key, r) ==
    IF MapHas(m, key)
    THEN MapSet(m, key, [MapGet(m, key) EXCEPT !.rows = Append(@, r)])
    ELSE MapSet(m, key, newStudent(key, r))

RECURSIVE studentMapOf(_, _)
studentMapOf(rows, m) ==
    IF rows = <<>> THEN m
    ELSE IF HasKey(Head(rows))
    THEN studentMapOf(Tail(rows), addToStudent(m, keyOf(Head(rows)), Head(rows)))
    ELSE studentMapOf(Tail(rows), m)

addCredit(m, g, r) == MapSet(m, g, getOrZero(m, g) + credit(r))

RECURSIVE groupSums(_, _)
groupSums(rs, m) ==
    IF rs = <<>> THEN m
    ELSE groupSums(Tail(rs), addCredit(m, canonGroup(Head(rs).gyogwa), Head(rs)))

subjStrOf(grp) ==
    Join([i \in 1..Len(grp) |-> grp[i].k \o <<":">> \o NumStr(grp[i].v)],
         LitCommaSp)

summaryOf(s) ==
    [key |-> s.key, hakNyeon |-> s.hakNyeon, ban |-> s.ban,
     beonho |-> s.beonho, ireum |-> s.ireum, rows |-> s.rows,
     chongHakjeom |-> SumSeq([i \in 1..Len(s.rows) |-> credit(s.rows[i])]),
     gyogwabyeolHap |-> subjStrOf(groupSums(s.rows, <<>>))]

summariesOf(ss) == [i \in 1..Len(ss) |-> summaryOf(ss[i])]

rankStudents(arr) ==
    [i \in 1..Len(arr) |-> <<arr[i].hakNyeon, arr[i].ban, arr[i].beonho>>]

sortStudents(arr) == StableSort(arr, rankStudents(arr))

byStudentOf(rows) ==
    sortStudents(summariesOf(MapValues(studentMapOf(rows, <<>>))))

---------------------------------------------------------------------------
(* Kpis                                                                    *)
keyedRowCount(rows) == Len(SelectSeq(rows, HasKey))

(* rows.length *)
rowCount(rows) == Len(rows)

RECURSIVE studentSetOf(_, _)
studentSetOf(rows, acc) ==
    IF rows = <<>> THEN acc
    ELSE IF HasKey(Head(rows))
    THEN studentSetOf(Tail(rows), SetAdd(acc, keyOf(Head(rows))))
    ELSE studentSetOf(Tail(rows), acc)

RECURSIVE creditMapOf(_, _)
creditMapOf(rows, m) ==
    IF rows = <<>> THEN m
    ELSE IF HasKey(Head(rows))
    THEN creditMapOf(Tail(rows), addCredit(m, keyOf(Head(rows)), Head(rows)))
    ELSE creditMapOf(Tail(rows), m)

(* avg, held in hundredths: the card shows avgOf / 100. *)
avgOf(vals) ==
    IF Len(vals) > 0 THEN RoundRatio(SumSeq(vals) * 100, Len(vals)) ELSE 0

creditsByStudentOf(m) == [count |-> Len(m), avg |-> avgOf(MapValues(m))]

KpisOf(rows) ==
    [total |-> rowCount(rows),
     students |-> Len(studentSetOf(rows, <<>>)),
     creditsByStudent |-> creditsByStudentOf(creditMapOf(rows, <<>>))]

---------------------------------------------------------------------------
(* classes and studentsInClass                                             *)
RECURSIVE classSetOf(_, _)
classSetOf(rows, acc) ==
    IF rows = <<>> THEN acc
    ELSE IF Head(rows).hakNyeon # Null /\ Head(rows).ban # Null
    THEN classSetOf(Tail(rows),
                    SetAdd(acc, classKey(Head(rows).hakNyeon[1],
                                         Head(rows).ban[1])))
    ELSE classSetOf(Tail(rows), acc)

rankClasses(ks) == [i \in 1..Len(ks) |-> keyNumbers(ks[i], 2)]

sortClasses(ks) == StableSort(ks, rankClasses(ks))

classesOf(rows) == sortClasses(classSetOf(rows, <<>>))

(* String.prototype.padStart(2, '0') *)
padStart2(s) ==
    IF Len(s) >= 2 THEN s
    ELSE IF Len(s) = 1 THEN <<"0">> \o s ELSE <<"0", "0">>

labelOf(r) ==
    padStart2(NumStr(r.beonho[1])) \o <<"sp">>
      \o (IF r.ireum = Null THEN <<>> ELSE r.ireum[1])

InClass(r, g, c) ==
    r.hakNyeon = Some(g) /\ r.ban = Some(c) /\ r.beonho # Null

RECURSIVE labelMapOf(_, _, _, _)
labelMapOf(rows, g, c, m) ==
    IF rows = <<>> THEN m
    ELSE IF InClass(Head(rows), g, c)
    THEN labelMapOf(Tail(rows), g, c,
                    MapSet(m, studentKey(g, c, Head(rows).beonho[1]),
                           labelOf(Head(rows))))
    ELSE labelMapOf(Tail(rows), g, c, m)

studentArr(m) == [i \in 1..Len(m) |-> [key |-> m[i].k, label |-> m[i].v]]

rankLabels(arr) == [i \in 1..Len(arr) |-> CollKey(arr[i].label)]

sortLabels(arr) == StableSort(arr, rankLabels(arr))

studentsOfClass(rows, gc) ==
    sortLabels(studentArr(labelMapOf(rows, gc[1], gc[2], <<>>)))

studentsInClass(rows, k) ==
    IF k = Null \/ k = Some(<<>>) THEN <<>>
    ELSE studentsOfClass(rows, keyNumbers(k[1], 2))

(* String.prototype.includes *)
Includes(s, q) ==
    \E i \in 0..(Len(s) - Len(q)) : SubSeq(s, i + 1, i + Len(q)) = q

filteredStudents(arr, q) == SelectSeq(arr, LAMBDA s : Includes(s.label, q))

(* findIndex, counted from 1; 0 stands for -1. *)
selectedIndex(filtered, sel) ==
    IF \E i \in 1..Len(filtered) : Some(filtered[i].key) = sel
    THEN Min({i \in 1..Len(filtered) : Some(filtered[i].key) = sel})
    ELSE 0

(* The index handleListKey moves to, counted from 1. *)
nextIndex(down, idx, n) ==
    IF idx = 0 THEN 1
    ELSE IF down THEN (IF idx + 1 < n THEN idx + 1 ELSE n)
    ELSE (IF idx - 1 > 1 THEN idx - 1 ELSE 1)

---------------------------------------------------------------------------
(* Text run: one raw label is canonicalised, and the result once more.     *)
TextAlphabet == {"sp", "gyo", "yang", "mid", "/", "(", ")", "dlow"}

InsertAt(s, p, c) == SubSeq(s, 1, p) \o <<c>> \o SubSeq(s, p + 1, Len(s))

(* The alias literals of lines 57-63, as the claims refer to them. *)
AliasSet ==
    { GroupTarget,
      <<"gyo", "yang">>,
      <<"je", "2", "oe", "guk", "eo">>,
      <<"je", "2", "oe", "guk", "eo", "/", "han", "mun">>,
      <<"han", "mun">>,
      <<"gi", "sul", "kdot", "ga", "jeong">>,
      <<"gi", "sul", "kdot", "ga", "jeong", "/", "jeong", "bo">> }

(* Every alias literal written with each middle dot of line 44 (and the    *)
(* half-width one) and with one white-space character anywhere in it.      *)
AliasSpellings ==
    UNION { UNION { { ReplaceClass(a, {"kdot"}, d) }
                    \cup { InsertAt(ReplaceClass(a, {"kdot"}, d), p, w) :
                             p \in 0..Len(a), w \in {"sp", "isp"} } :
                    d \in MiddleDots \cup {"hkdot"} } :
            a \in AliasSet }

TextInputs ==
    {Null}
      \cup {Some(s) : s \in StringsUpTo(TextAlphabet, MaxTextLen)}
      \cup {Some(s) : s \in AliasSpellings}

InitText ==
    /\ pc = "start"
    /\ raw \in TextInputs
    /\ canon1 = <<>> /\ canon2 = <<>> /\ canonOther = <<>>
    /\ norm1 = Null /\ norm2 = Null
    /\ pname = Null /\ parsed = Null
    /\ rawPrereqs = <<>> /\ PREREQS = <<>> /\ courses = <<>> /\ checks = Null
    /\ sheet = <<>> /\ data = <<>> /\ byStudent = <<>>
    /\ klass = Null /\ students = <<>> /\ kpis = Null /\ aoa = Null
    /\ selected = Null /\ query = <<>>

Canonicalize ==
    /\ pc = "start"
    /\ canon1' = canonGroup(raw)
    /\ pc' = "canon"
    /\ UNCHANGED <<raw, canon2, canonOther, norm1, norm2, parseVars, checkVars, appVars>>

Recanonicalize ==
    /\ pc = "canon"
    /\ canon2' = canonGroup(Some(canon1))
    /\ pc' = "recanon"
    /\ UNCHANGED <<raw, canon1, canonOther, norm1, norm2, parseVars, checkVars, appVars>>

NormalizeName ==
    /\ pc = "start"
    /\ norm1' = normCourseName(raw)
    /\ pc' = "norm"
    /\ UNCHANGED <<raw, canon1, canon2, canonOther, norm2, parseVars, checkVars, appVars>>

RenormalizeName ==
    /\ pc = "norm"
    /\ norm2' = normCourseName(norm1)
    /\ pc' = "renorm"
    /\ UNCHANGED <<raw, canon1, canon2, canonOther, norm1, parseVars, checkVars, appVars>>

(* The same label handed to canonGroup of the other UI variant. *)
CanonicalizeOtherVariant ==
    /\ pc = "canon"
    /\ canonOther' = canonGroupOtherVariant(raw)
    /\ pc' = "both"
    /\ UNCHANGED <<raw, canon1, canon2, norm1, norm2, parseVars, checkVars, appVars>>

NextText ==
    \/ Canonicalize \/ Recanonicalize \/ CanonicalizeOtherVariant
    \/ NormalizeName \/ RenormalizeName

SpecText == InitText /\ [][NextText]_vars

(* C1: the normalisation chain is idempotent: canonicalising the output of *)
(* canonGroup again returns it unchanged, for every input string.          *)
C1_Idempotent == pc = "recanon" => canon2 = canon1

(* A label as the claim compares it: without white space, every middle    *)
(* dot written as the designated separator.                                *)
Compared(s) ==
    SelectSeq(ReplaceClass(s, {"mid", "hkdot"}, "kdot"), LAMBDA c : ~IsWs(c))

(* C2: every spelling of an alias (white space and the middle dot aside)   *)
(* canonicalises to the merged label; null, the empty string and a         *)
(* white-space-only string canonicalise to the fixed label for "other".    *)
C2_AliasClosure ==
    pc = "canon" =>
        /\ (raw = Null \/ (raw # Null /\ \A i \in 1..Len(raw[1]) : IsWs(raw[1][i])))
              => canon1 = Gita
        /\ (raw # Null /\ Compared(raw[1]) \in AliasSet) => canon1 = GroupTarget

C2_Witness ==
    /\ pc = "canon"
    /\ raw # Null
    /\ raw[1] \notin AliasSet
    /\ \E i \in 1..Len(raw[1]) : IsWs(raw[1][i])
    /\ Compared(raw[1]) = <<"je", "2", "oe", "guk", "eo", "/", "han", "mun">>
    /\ canon1 = GroupTarget

---------------------------------------------------------------------------
(* Parse run: one course name is handed to parseHierLevel.                 *)
NameAlphabet == {"mul", "sp", "s", "I", "V", "X", "R1", "R5", "R8"}

InitParse ==
    /\ pc = "start"
    /\ pname \in {Null} \cup {Some(s) : s \in StringsUpTo(NameAlphabet, MaxNameLen)}
    /\ parsed = Null
    /\ raw = Null
    /\ canon1 = <<>> /\ canon2 = <<>> /\ canonOther = <<>>
    /\ norm1 = Null /\ norm2 = Null
    /\ rawPrereqs = <<>> /\ PREREQS = <<>> /\ courses = <<>> /\ checks = Null
    /\ sheet = <<>> /\ data = <<>> /\ byStudent = <<>>
    /\ klass = Null /\ students = <<>> /\ kpis = Null /\ aoa = Null
    /\ selected = Null /\ query = <<>>

Parse ==
    /\ pc = "start"
    /\ parsed' = parseHierLevel(pname)
    /\ pc' = "parsed"
    /\ UNCHANGED <<textVars, pname, checkVars, appVars>>

NextParse == Parse

SpecParse == InitParse /\ [][NextParse]_vars

(* The numerals of the level table, I..X, in both alphabets. *)
TableNumerals ==
    { <<"I">>, <<"I", "I">>, <<"I", "I", "I">>, <<"I", "V">>, <<"V">>,
      <<"V", "I">>, <<"V", "I", "I">>, <<"V", "I", "I", "I">>, <<"I", "X">>,
      <<"X">> } \cup unicodeRoman
RomanLetters == {"I", "V", "X", "R1", "R5", "R8"}

(* C3: a name made of a base that does not end in I, V or X and of any     *)
(* numeral of the table parses to the level of that whole numeral; a name  *)
(* with no trailing numeral is absent.                                     *)
C3_LongestNumeral ==
    (pc = "parsed" /\ pname # Null) =>
        LET s == pname[1]
            splits == { k \in 1..Len(s) :
                          /\ Trim(SubSeq(s, 1, k)) # <<>>
                          /\ Trim(SubSeq(s, 1, k)) = SubSeq(s, 1, k)
                          /\ s[k] \notin RomanLetters
                          /\ SubSeq(s, k + 1, Len(s)) \in TableNumerals }
        IN  /\ \A k \in splits :
                /\ parsed # Null
                /\ parsed[1].level = RomanLevel(SubSeq(s, k + 1, Len(s)))
                /\ parsed[1].base = NFKC(SubSeq(s, 1, k))
            /\ (\A k \in 0..Len(NFKC(Trim(s))) :
                    SubSeq(NFKC(Trim(s)), k + 1, Len(NFKC(Trim(s))))
                        \notin TableNumerals) => parsed = Null

---------------------------------------------------------------------------
(* Checks run: the sequence check and the explicit-prerequisite check on   *)
(* one student's course list, as the detail view shows them and as         *)
(* buildChecks writes them into the export.                                *)
Mijeokbun == <<"mi", "jeok", "bun">>
CourseNames ==
    { <<"mul", "R1">>, <<"mul", "I", "I">>, <<"mul", "sp", "R3">>,
      <<"hwa", "R2">>, <<"hwa", "I", "V">>,
      Mijeokbun, <<"su", "hak", "R1">>, <<"su", "hak", "I", "I">>, <<>> }

RawTables ==
    { << [k |-> Mijeokbun, v |-> << <<"su", "hak", "R1">>, <<"su", "hak", "R2">> >>] >>,
      << [k |-> Mijeokbun, v |-> << <<"su", "hak", "R2">>, <<"su", "hak", "R1">> >>],
         [k |-> <<"mul", "R2">>, v |-> << <<"mul", "R1">> >>] >>,
      << [k |-> Mijeokbun, v |-> << <<"su", "hak", "R1">> >>],
         [k |-> <<"sp">>, v |-> << <<"mul", "R1">> >>],
         [k |-> <<"sp", "mi", "jeok", "bun">>,
          v |-> << <<"su", "hak", "R2">>, <<>>, <<"hwa", "R1">> >>] >>,
      << [k |-> <<"mul", "R2">>, v |-> << <<"mul", "R1">> >>],
         [k |-> <<"hwa", "R2">>, v |-> << <<"hwa", "R1">> >>],
         [k |-> <<"mul", "I", "I">>, v |-> << <<"hwa", "sp", "R2">> >>] >> }

InitChecks ==
    /\ pc = "start"
    /\ rawPrereqs \in RawTables
    /\ PREREQS = LoadPrereqs(rawPrereqs, <<>>)
    /\ courses \in StringsUpTo(CourseNames, MaxCourses)
    /\ checks = Null
    /\ raw = Null
    /\ canon1 = <<>> /\ canon2 = <<>> /\ canonOther = <<>>
    /\ norm1 = Null /\ norm2 = Null
    /\ pname = Null /\ parsed = Null
    /\ sheet = <<>> /\ data = <<>> /\ byStudent = <<>>
    /\ klass = Null /\ students = <<>> /\ kpis = Null /\ aoa = Null
    /\ selected = Null /\ query = <<>>

(* The detail view of the selected student, lines 499-532. *)
DetailChecks ==
    /\ pc = "start"
    /\ checks' = Some([seq |-> seqViolations(courses),
                       explicit |-> explicitViolations(courses, PREREQS),
                       text |-> <<>>])
    /\ pc' = "detail"
    /\ UNCHANGED <<textVars, parseVars, rawPrereqs, PREREQS, courses, appVars>>

(* buildChecks of exportAll, lines 322-353. *)
BuildChecks ==
    /\ pc = "start"
    /\ checks' = Some([seq |-> <<>>, explicit |-> <<>>,
                       text |-> buildChecks(courses, PREREQS)])
    /\ pc' = "built"
    /\ UNCHANGED <<textVars, parseVars, rawPrereqs, PREREQS, courses, appVars>>

NextChecks == DetailChecks \/ BuildChecks

SpecChecks == InitChecks /\ [][NextChecks]_vars

(* The levels attained for a base, read off the course list. *)
ParsedCourses ==
    { parseHierLevel(Some(courses[i]))[1] :
        i \in { j \in 1..Len(courses) : parseHierLevel(Some(courses[j])) # Null } }
Bases == { ph.base : ph \in ParsedCourses }
Attained(b) == { ph.level : ph \in { q \in ParsedCourses : q.base = b } }
Gaps(b) == { l \in 1..(Max(Attained(b)) - 1) : l \notin Attained(b) }
IsPrefix(a, s) == Len(a) <= Len(s) /\ SubSeq(s, 1, Len(a)) = a
IsAscending(s) == \A i \in 1..(Len(s) - 1) : s[i] < s[i + 1]
SeqToSet(s) == { s[i] : i \in 1..Len(s) }
Ascending(S) ==
    [k \in 1..Cardinality(S) |->
        CHOOSE x \in S : Cardinality({y \in S : y < x}) = k - 1]

(* C4: for every base among the parsed courses, with M its highest level,  *)
(* the missing levels reported are exactly the levels of 1..M-1 that were  *)
(* not attained, and a base is reported only when there is such a level.   *)
C4_SequenceCheck ==
    /\ pc = "detail" =>
         LET f == checks[1].seq
         IN  /\ \A i \in 1..Len(f) :
                   /\ f[i].base \in Bases
                   /\ Gaps(f[i].base) # {}
                   /\ SeqToSet(f[i].missing) = Gaps(f[i].base)
                   /\ IsAscending(f[i].missing)
                   /\ \A j \in 1..Len(f) : f[j].base = f[i].base => j = i
             /\ \A b \in Bases :
                   Gaps(b) # {} => \E i \in 1..Len(f) : f[i].base = b
    /\ pc = "built" =>
         /\ IsPrefix(LitRomanPrefix, checks[1].text)
               <=> (\E b \in Bases : Gaps(b) # {})
         /\ \A b \in Bases :
               (Gaps(b) # {} /\ \A c \in Bases \ {b} : Gaps(c) = {}) =>
                   IsPrefix(LitRomanPrefix \o b \o LitNurak
                              \o Join([k \in 1..Cardinality(Gaps(b)) |->
                                         NumStr(Ascending(Gaps(b))[k])],
                                      LitCommaSp),
                            checks[1].text)

(* Levels {1,3} of one base give exactly the finding [2]. *)
C4_Witness ==
    /\ pc = "detail"
    /\ \E b \in Bases : Attained(b) = {1, 3}
    /\ \E i \in 1..Len(checks[1].seq) : checks[1].seq[i].missing = <<2>>

(* C5: a course is reported exactly when its normalised name is held, it   *)
(* is a key of the table and a required name is not held; the finding      *)
(* lists exactly the required names not held, in table order.              *)
Held(c) == \E i \in 1..Len(courses) : normCourseName(Some(courses[i])) = Some(c)
NotHeld(reqs) == SelectSeq(reqs, LAMBDA r : ~Held(r))

C5_ExplicitCheck ==
    /\ pc = "detail" =>
         LET f == checks[1].explicit
         IN  /\ \A i \in 1..Len(f) :
                   /\ Held(f[i].course)
                   /\ MapHas(PREREQS, f[i].course)
                   /\ f[i].missing # <<>>
                   /\ f[i].missing = NotHeld(MapGet(PREREQS, f[i].course))
                   /\ \A j \in 1..Len(f) : f[j].course = f[i].course => j = i
             /\ \A i \in 1..Len(PREREQS) :
                   (Held(PREREQS[i].k) /\ NotHeld(PREREQS[i].v) # <<>>)
                       => \E j \in 1..Len(f) : f[j].course = PREREQS[i].k
    /\ pc = "built" =>
         \A i \in 1..Len(PREREQS) :
             (/\ Held(PREREQS[i].k)
              /\ NotHeld(PREREQS[i].v) # <<>>
              /\ \A b \in Bases : Gaps(b) = {}
              /\ \A j \in 1..Len(PREREQS) :
                    (j # i /\ Held(PREREQS[j].k)) => NotHeld(PREREQS[j].v) = <<>>)
               => checks[1].text
                    = PREREQS[i].k \o LitSeonsu
                        \o Join(NotHeld(PREREQS[i].v), LitCommaSp)

(* The table maps one course to two names; the student holds the course    *)
(* and the first name only, and the finding names the second.              *)
C5_Witness ==
    /\ pc = "detail"
    /\ MapHas(PREREQS, Mijeokbun)
    /\ Len(MapGet(PREREQS, Mijeokbun)) = 2
    /\ Held(Mijeokbun)
    /\ Held(<<"su", "hak", "I">>)
    /\ checks[1].explicit
         = << [course |-> Mijeokbun, missing |-> << <<"su", "hak", "I", "I">> >>] >>

---------------------------------------------------------------------------
(* App run: a workbook is uploaded, then classes are selected and the      *)
(* summary is exported, in any order and any number of times.              *)
MaxRows == 3

Mul1 == <<"mul", "R1">>
Mul2 == <<"mul", "R2">>
Hwa2 == <<"hwa", "R2">>
Hanguksa == <<"han", "guk", "sa">>
Gugeo == <<"guk", "eo">>
Suhak == <<"su", "hak">>
Gyoyang == <<"gyo", "yang">>

(* prereqs.json as the exports of the runs find it. *)
AppTable ==
    << [k |-> Mijeokbun, v |-> << <<"su", "hak", "R2">>, <<"su", "hak", "R1">> >>],
       [k |-> <<"mul", "R2">>, v |-> << <<"mul", "R1">> >>] >>

RowOf(key, ireum, gyogwa, gwamokMyeong, hakjeom) ==
    [hakNyeon |-> key[1], ban |-> key[2], beonho |-> key[3], ireum |-> ireum,
     gwamokHakNyeon |-> Some(1), gwamokHakgi |-> Some(1),
     gyogwa |-> gyogwa, gwamokMyeong |-> gwamokMyeong, hakjeom |-> hakjeom]

(* Export run: three students of one class and a row without a class;     *)
(* the rows of a student differ in name, subject group and course.         *)
ExportKeys ==
    { <<Some(1), Some(1), Some(1)>>, <<Some(1), Some(1), Some(-1)>>,
      <<Some(1), Some(1), Some(-2)>>, <<Some(1), Null, Some(1)>> }

ExportRows ==
    { RowOf(key, Some(<<"kim">>), Some(Gugeo), Some(Mul2), Some(2)) :
        key \in ExportKeys }
      \cup { RowOf(key, Some(<<"lee">>), Some(Gyoyang), Some(Hwa2), Some(3)) :
               key \in ExportKeys }
      \cup { RowOf(key, Null, Null, Some(Mijeokbun), Null) : key \in ExportKeys }

(* Aggregation run: the rows of one student differ in subject group,       *)
(* course and credit; a second student and a row without a class stand by. *)
AggKey == <<Some(1), Some(1), Some(1)>>

AggRows ==
    { RowOf(AggKey, Some(<<"kim">>), Some(Gugeo), Some(Mul1), Some(3)),
      RowOf(AggKey, Some(<<"kim">>), Some(Gugeo), Some(Mul1), Some(2)),
      RowOf(AggKey, Some(<<"kim">>), Some(Gyoyang), Some(Mul1), Some(4)),
      RowOf(AggKey, Some(<<"kim">>), Some(Gugeo), Some(Mul1), Some(51)),
      RowOf(AggKey, Some(<<"kim">>), Null, Some(Mul1), Some(49)),
      RowOf(AggKey, Some(<<"kim">>), Null, Some(Hanguksa), Some(50)),
      RowOf(AggKey, Some(<<"kim">>), Null, Some(Mul1), Some(50)),
      RowOf(AggKey, Some(<<"kim">>), Null, Some(Mul1), Some(13)),
      RowOf(AggKey, Some(<<"kim">>), Some(Gyoyang), Null, Null),
      RowOf(AggKey, Some(<<"kim">>), Some(Suhak), Some(Hanguksa), Some(1)),
      RowOf(<<Some(1), Some(1), Some(2)>>, Some(<<"lee">>), Some(Gugeo),
            Some(Mul1), Some(3)),
      RowOf(<<Some(1), Null, Some(1)>>, Some(<<"bak">>), Some(Gugeo),
            Some(Mul1), Some(4)) }

InitApp(rows) ==
    /\ pc = "file"
    /\ sheet \in StringsUpTo(rows, MaxRows)
    /\ data = <<>> /\ byStudent = <<>>
    /\ klass = Null /\ students = <<>> /\ kpis = Null /\ aoa = Null
    /\ selected = Null /\ query = <<>>
    /\ rawPrereqs = AppTable
    /\ PREREQS = LoadPrereqs(AppTable, <<>>)
    /\ courses = <<>> /\ checks = Null
    /\ raw = Null
    /\ canon1 = <<>> /\ canon2 = <<>> /\ canonOther = <<>>
    /\ norm1 = Null /\ norm2 = Null
    /\ pname = Null /\ parsed = Null

InitExport == InitApp(ExportRows)

InitAgg == InitApp(AggRows)

(* Upload's onLoad: setData(ds); setKlass(null); setSelected(null), and    *)
(* the memos that depend on data.                                          *)
Upload ==
    /\ pc = "file"
    /\ data' = sheet
    /\ byStudent' = byStudentOf(sheet)
    /\ klass' = Null
    /\ selected' = Null
    /\ students' = studentsInClass(sheet, Null)
    /\ kpis' = (IF Len(sheet) > 0 THEN Some(KpisOf(sheet)) ELSE Null)
    /\ pc' = "loaded"
    /\ UNCHANGED <<textVars, parseVars, checkVars, sheet, query, aoa>>

(* The class select's onChange: setKlass(e.target.value || null), and the  *)
(* memo that depends on klass.  The options are '' and the classes.        *)
SelectClass(k) ==
    /\ pc = "loaded"
    /\ Len(data) > 0
    /\ klass' = (IF k = <<>> THEN Null ELSE Some(k))
    /\ selected' = Null
    /\ students' = studentsInClass(data, IF k = <<>> THEN Null ELSE Some(k))
    /\ UNCHANGED <<pc, textVars, parseVars, checkVars, sheet, data, byStudent,
                   query, kpis, aoa>>

ClassOptions == {<<>>} \cup SeqToSet(classesOf(data))

(* The export button's onClick. *)
ExportAll ==
    /\ pc = "loaded"
    /\ Len(data) > 0
    /\ aoa' = Some(exportAll(data, PREREQS))
    /\ UNCHANGED <<pc, textVars, parseVars, checkVars, sheet, data, byStudent,
                   klass, students, selected, query, kpis>>

NextApp == Upload \/ (\E k \in ClassOptions : SelectClass(k)) \/ ExportAll

SpecExport == InitExport /\ [][NextApp]_vars

SpecAgg == InitAgg /\ [][NextApp]_vars

---------------------------------------------------------------------------
(* Selection run: students of several classes, one class with a negative   *)
(* number, one with the number 0, a row without a class and a row without  *)
(* a student number; the user picks classes, types in the search box,      *)
(* clicks students, presses the arrow keys and loads further files.        *)
UIRow(g, c, n, ireum) ==
    RowOf(<<g, c, n>>, ireum, Some(Gugeo), Some(Mul1), Some(1))

UIRows ==
    { UIRow(Some(1), Some(1), Some(1), Some(<<"kim">>)),
      UIRow(Some(1), Some(1), Some(2), Some(<<"lee">>)),
      UIRow(Some(1), Some(2), Some(1), Some(<<"bak">>)),
      UIRow(Some(1), Some(-1), Some(1), Some(<<"kim">>)),
      UIRow(Some(1), Some(0), Some(1), Some(<<"lee">>)),
      UIRow(Some(1), Null, Some(1), Some(<<"bak">>)),
      UIRow(Some(1), Some(1), Null, Null) }

Queries == { <<>>, <<"kim">>, <<"2">>, <<"bak">> }

(* The files loaded after the first one. *)
LaterSheets ==
    { << UIRow(Some(1), Some(1), Some(1), Some(<<"kim">>)) >>,
      << UIRow(Some(1), Some(2), Some(1), Some(<<"bak">>)),
         UIRow(Some(1), Some(1), Some(1), Some(<<"lee">>)) >> }

InitUI == InitApp(UIRows)

(* The user picks another workbook in the file input. *)
ChooseFile(ds) ==
    /\ pc = "loaded"
    /\ sheet' = ds
    /\ pc' = "file"
    /\ UNCHANGED <<textVars, parseVars, checkVars, data, byStudent, klass,
                   students, selected, query, kpis, aoa>>

(* The search box's onChange: setQuery(e.target.value).  The box is        *)
(* rendered when there are rows and a class is selected.                   *)
ChangeQuery(q) ==
    /\ pc = "loaded"
    /\ Len(data) > 0 /\ klass # Null
    /\ query' = q
    /\ UNCHANGED <<pc, textVars, parseVars, checkVars, sheet, data, byStudent,
                   klass, students, selected, kpis, aoa>>

(* onClick of the i-th button of the list: setSelected(s.key). *)
ClickStudent(i) ==
    /\ pc = "loaded"
    /\ Len(data) > 0 /\ klass # Null
    /\ i \in 1..Len(filteredStudents(students, query))
    /\ selected' = Some(filteredStudents(students, query)[i].key)
    /\ UNCHANGED <<pc, textVars, parseVars, checkVars, sheet, data, byStudent,
                   klass, students, query, kpis, aoa>>

(* handleListKey on ArrowDown (down) or ArrowUp; with an empty list it     *)
(* returns before it sets anything.                                        *)
ArrowKey(down) ==
    /\ pc = "loaded"
    /\ Len(data) > 0 /\ klass # Null
    /\ \E filtered \in {filteredStudents(students, query)} :
         /\ Len(filtered) > 0
         /\ selected' =
              Some(filtered[nextIndex(down, selectedIndex(filtered, selected),
                                      Len(filtered))].key)
    /\ UNCHANGED <<pc, textVars, parseVars, checkVars, sheet, data, byStudent,
                   klass, students, query, kpis, aoa>>

NextUI ==
    \/ Upload
    \/ \E k \in ClassOptions : SelectClass(k)
    \/ \E q \in Queries : ChangeQuery(q)
    \/ \E i \in 1..MaxRows : ClickStudent(i)
    \/ \E down \in BOOLEAN : ArrowKey(down)
    \/ \E ds \in LaterSheets : ChooseFile(ds)

SpecUI == InitUI /\ [][NextUI]_vars

---------------------------------------------------------------------------
(* What the claims about the export say, read off data.                    *)
Triple(r) == <<r.hakNyeon[1], r.ban[1], r.beonho[1]>>
Keyed == { i \in 1..Len(data) : HasKey(data[i]) }
StudentTriples == { Triple(data[i]) : i \in Keyed }
RowsOf(t) == { i \in Keyed : Triple(data[i]) = t }
CreditAt(i) == IF data[i].hakjeom = Null THEN 0 ELSE data[i].hakjeom[1]

RECURSIVE CreditSum(_)
CreditSum(S) ==
    IF S = {} THEN 0
    ELSE LET i == CHOOSE j \in S : TRUE IN CreditAt(i) + CreditSum(S \ {i})

InGroup(t, g) == { i \in RowsOf(t) : canonGroup(data[i].gyogwa) = g }
GroupsOfStudent(t) == { canonGroup(data[i].gyogwa) : i \in RowsOf(t) }

Header == aoa[1][1]
Records == Tail(aoa[1])
NumGroups == Len(Header) - 9
TripleOf(rec) == <<rec[1], rec[2], rec[3]>>
GroupCell(rec, j) == rec[4 + j]
TotalCell(rec) == rec[4 + NumGroups + 1]
BaseCell(rec) == rec[4 + NumGroups + 2]
KhCell(rec) == rec[4 + NumGroups + 3]
PctCell(rec) == rec[4 + NumGroups + 4]
CheckCell(rec) == rec[4 + NumGroups + 5]
RecordsOf(t) == { k \in 1..Len(Records) : TripleOf(Records[k]) = t }
BucketsOf(t) ==
    { k \in 1..Len(byStudent) :
        <<byStudent[k].hakNyeon, byStudent[k].ban, byStudent[k].beonho>> = t }

(* The pieces "group:sum" of a bucket's per-group text. *)
Pieces(str) ==
    IF str = <<>> THEN {}
    ELSE { TrimStart(p) : p \in SeqToSet(Split(str, ",")) }

(* C6: every student has a record in the export and a bucket in            *)
(* byStudent; the total of each is the sum of the credits of all rows with *)
(* the student's key, and the credit of each group is the sum of the       *)
(* credits of the student's rows whose subject group canonicalises to that *)
(* group, a missing credit counting as 0.                                  *)
C6_Aggregation ==
    /\ aoa # Null =>
         \A t \in StudentTriples :
            /\ RecordsOf(t) # {}
            /\ \A k \in RecordsOf(t) :
                 /\ TotalCell(Records[k]) = CreditSum(RowsOf(t))
                 /\ \A j \in 1..NumGroups :
                      GroupCell(Records[k], j)
                        = CreditSum(InGroup(t, Header[4 + j]))
                 /\ GroupsOfStudent(t)
                      \subseteq { Header[4 + j] : j \in 1..NumGroups }
    /\ pc = "loaded" =>
         \A t \in StudentTriples :
            /\ BucketsOf(t) # {}
            /\ \A k \in BucketsOf(t) :
                 /\ byStudent[k].chongHakjeom = CreditSum(RowsOf(t))
                 /\ Pieces(byStudent[k].gyogwabyeolHap)
                      = { g \o <<":">> \o NumStr(CreditSum(InGroup(t, g))) :
                            g \in GroupsOfStudent(t) }

(* The rows (A, 3), (A, 2), (B, 4) of one student are exported with total  *)
(* 9, A = 5 and B = 4.                                                     *)
C6_Witness ==
    /\ aoa # Null
    /\ Len(data) = 3
    /\ \E t \in StudentTriples :
         /\ RowsOf(t) = {1, 2, 3}
         /\ \E a, b, c \in 1..3 :
              /\ {a, b, c} = {1, 2, 3}
              /\ data[a].gyogwa = Some(Gugeo) /\ data[a].hakjeom = Some(3)
              /\ data[b].gyogwa = Some(Gugeo) /\ data[b].hakjeom = Some(2)
              /\ data[c].gyogwa = Some(Gyoyang) /\ data[c].hakjeom = Some(4)
         /\ \E k \in RecordsOf(t) :
              /\ TotalCell(Records[k]) = 9
              /\ \E j \in 1..NumGroups :
                   Header[4 + j] = Gugeo /\ GroupCell(Records[k], j) = 5
              /\ \E j \in 1..NumGroups :
                   Header[4 + j] = GroupTarget /\ GroupCell(Records[k], j) = 4
         /\ \E k \in BucketsOf(t) : byStudent[k].chongHakjeom = 9

Abs(x) == IF x < 0 THEN 0 - x ELSE x
EndsWith(s, tail) ==
    Len(s) >= Len(tail) /\ SubSeq(s, Len(s) - Len(tail) + 1, Len(s)) = tail
FoundationRows(t) ==
    { i \in RowsOf(t) : canonGroup(data[i].gyogwa) \in {Gugeo, Suhak, <<"yeong", "eo">>} }
KhRows(t) ==
    { i \in RowsOf(t) :
        /\ data[i].gwamokMyeong # Null
        /\ data[i].gwamokMyeong[1] \in KoreanHistoryNames }

(* C7: in every record the ratio cell, in tenths of a percent, is the      *)
(* tenth nearest to 100 * (foundation sum + Korean-History sum) / total    *)
(* when the total is positive and 0 otherwise, and the violation string    *)
(* ends with the ratio flag exactly when the cell is above 50.0.           *)
C7_RatioAndThreshold ==
    aoa # Null =>
      \A k \in 1..Len(Records) :
         LET rec == Records[k]
             t == TripleOf(rec)
             part == CreditSum(FoundationRows(t)) + CreditSum(KhRows(t))
             total == CreditSum(RowsOf(t))
         IN  /\ total > 0 =>
                  2 * Abs(1000 * part - PctCell(rec) * total) <= total
             /\ total <= 0 => PctCell(rec) = 0
             /\ EndsWith(CheckCell(rec), LitRatio) <=> PctCell(rec) > 500

(* 51 of 100 is exported as 51.0 with the flag. *)
C7_Witness ==
    /\ aoa # Null
    /\ \E k \in 1..Len(Records) :
         /\ TotalCell(Records[k]) = 100
         /\ BaseCell(Records[k]) + KhCell(Records[k]) = 51
         /\ PctCell(Records[k]) = 510
         /\ CheckCell(Records[k]) = LitRatio

TripleLess(a, b) ==
    \/ a[1] < b[1]
    \/ a[1] = b[1] /\ a[2] < b[2]
    \/ a[1] = b[1] /\ a[2] = b[2] /\ a[3] < b[3]

(* C8: the export holds exactly one record for each student key of the     *)
(* rows, and the records are strictly ascending by (grade, class, number)  *)
(* as numbers, whatever the order of the rows.                             *)
C8_Ordering ==
    aoa # Null =>
      /\ \A t \in StudentTriples : Cardinality(RecordsOf(t)) = 1
      /\ Len(Records) = Cardinality(StudentTriples)
      /\ \A k \in 1..(Len(Records) - 1) :
           TripleLess(TripleOf(Records[k]), TripleOf(Records[k + 1]))

Injective(f) == \A i, j \in DOMAIN f : f[i] = f[j] => i = j
Reorderings == { p \in [1..Len(data) -> 1..Len(data)] : Injective(p) }
Reordered(p) == [i \in 1..Len(data) |-> data[p[i]]]
FirstRowOf(rows, t) ==
    rows[Min({ i \in 1..Len(rows) : HasKey(rows[i]) /\ Triple(rows[i]) = t })]
KeepsFirstRows(p) ==
    \A t \in StudentTriples : FirstRowOf(Reordered(p), t) = FirstRowOf(data, t)

(* C9: the export of the rows in any other order that keeps the first row  *)
(* of every student key holds the same records, the text of the violation  *)
(* string included.                                                        *)
C9_OrderIndependent ==
    aoa # Null =>
      \A p \in Reorderings :
         KeepsFirstRows(p) =>
           SeqToSet(Tail(exportAll(Reordered(p), PREREQS))) = SeqToSet(Records)

ShownName(t) ==
    LET first == data[Min(RowsOf(t))].ireum
    IN  IF first = Null THEN <<>> ELSE first[1]

(* C10: the export record, the byStudent bucket and the label in the class *)
(* list all show, for a student key, the name of the first row with that   *)
(* key.                                                                    *)
C10_FirstSeenName ==
    /\ aoa # Null =>
         \A k \in 1..Len(Records) : Records[k][4] = ShownName(TripleOf(Records[k]))
    /\ \A k \in 1..Len(byStudent) :
         byStudent[k].ireum
           = data[Min(RowsOf(<<byStudent[k].hakNyeon, byStudent[k].ban,
                                byStudent[k].beonho>>))].ireum
    /\ \A k \in 1..Len(students) :
         \A t \in StudentTriples :
            students[k].key = studentKey(t[1], t[2], t[3]) =>
              students[k].label
                = padStart2(NumStr(t[3])) \o <<"sp">> \o ShownName(t)

---------------------------------------------------------------------------
(* The canonical groups of all rows of the dataset. *)
DatasetGroups == { canonGroup(data[i].gyogwa) : i \in 1..Len(data) }

IdentityColumns ==
    << <<"hak", "nyeon">>, <<"ban">>, <<"beon", "ho">>, <<"i", "reum">> >>

TrailingColumns ==
    << <<"jeon", "che", "i", "su", "hak", "jeom">>,
       <<"gi", "cho", "gyo", "gwa", "hak", "jeom">>,
       <<"han", "guk", "sa", "hak", "jeom">>,
       <<"gi", "cho", "gyo", "gwa", "+", "han", "guk", "sa", "bi", "yul",
         "(", "%", ")">>,
       <<"jeom", "geom">> >>

GroupColumns == SubSeq(Header, 5, 4 + Cardinality(DatasetGroups))

(* C11 (amended): the header is the four identity columns, then one column *)
(* per canonical group of the dataset, then the FIVE fixed trailing        *)
(* columns (total, foundation, Korean History, ratio, check), in that      *)
(* order; every record has as many cells as the header, its identity cells *)
(* being a student key of the rows and its name.                           *)
C11_Layout ==
    aoa # Null =>
      /\ Len(Header) = 4 + Cardinality(DatasetGroups) + 5
      /\ SubSeq(Header, 1, 4) = IdentityColumns
      /\ SeqToSet(GroupColumns) = DatasetGroups
      /\ SubSeq(Header, Len(Header) - 4, Len(Header)) = TrailingColumns
      /\ \A k \in 1..Len(Records) :
           /\ Len(Records[k]) = Len(Header)
           /\ TripleOf(Records[k]) \in StudentTriples
           /\ TotalCell(Records[k]) = CreditSum(RowsOf(TripleOf(Records[k])))

(* Two students and two groups are exported. *)
C11_Witness ==
    /\ aoa # Null
    /\ Len(Records) >= 2
    /\ Cardinality(DatasetGroups) >= 2
    /\ Len(Records[1]) = Len(Header)

(* C11 as stated: the same with four fixed trailing columns after the      *)
(* group columns.                                                          *)
C11_LayoutFourTrailing ==
    aoa # Null =>
      /\ Len(Header) = 4 + Cardinality(DatasetGroups) + 4
      /\ SubSeq(Header, 1, 4) = IdentityColumns
      /\ SeqToSet(GroupColumns) = DatasetGroups
      /\ \A k \in 1..Len(Records) : Len(Records[k]) = Len(Header)

---------------------------------------------------------------------------
KeyedRows == SelectSeq(data, HasKey)
KeylessRows == { i \in 1..Len(data) : ~HasKey(data[i]) }
ColumnOf(header, g) == CHOOSE j \in 5..(Len(header) - 5) : header[j] = g
HasColumn(header, g) == \E j \in 5..(Len(header) - 5) : header[j] = g

(* The record rec of the header head against the record ref of the header  *)
(* refHead: the same but for group columns only rec has, which hold 0.     *)
SameRecord(head, rec, refHead, ref) ==
    /\ SubSeq(rec, 1, 4) = SubSeq(ref, 1, 4)
    /\ SubSeq(rec, Len(rec) - 4, Len(rec)) = SubSeq(ref, Len(ref) - 4, Len(ref))
    /\ \A j \in 5..(Len(rec) - 5) :
         rec[j] = IF HasColumn(refHead, head[j])
                  THEN ref[ColumnOf(refHead, head[j])] ELSE 0

(* C12: the export of the rows holds the same records as the export of the *)
(* rows that have grade, class and number: no record more, and in every    *)
(* record the same identity, total, foundation sum, Korean-History sum,    *)
(* ratio and violation string and the same sum for every group (0 for a    *)
(* group only rows without a key belong to); the row count of the Kpis     *)
(* counts every row, its student counts only the keys.                     *)
C12_KeylessRows ==
    /\ aoa # Null =>
         \A without \in {exportAll(KeyedRows, PREREQS)} :
            /\ Len(aoa[1]) = Len(without)
            /\ \A k \in 2..Len(without) :
                 SameRecord(aoa[1][1], aoa[1][k], without[1], without[k])
    /\ kpis # Null =>
         /\ kpis[1].total = Len(data)
         /\ kpis[1].students = Cardinality(StudentTriples)
         /\ kpis[1].creditsByStudent.count = Cardinality(StudentTriples)

(* A row without a class stands between the rows of an exported student. *)
C12_Witness ==
    /\ aoa # Null
    /\ Len(data) = 3
    /\ KeylessRows = {2}
    /\ Len(Records) = 1
    /\ kpis[1].total = 3
    /\ kpis[1].students = 1
    /\ Cardinality(DatasetGroups)
         > Cardinality({ canonGroup(data[i].gyogwa) : i \in Keyed })

---------------------------------------------------------------------------
SingleLevelBases == { b \in Bases : Cardinality(Attained(b)) = 1 }
TheLevel(b) == CHOOSE l \in Attained(b) : TRUE

(* Whether s occurs in text as a contiguous piece. *)
Occurs(s, text) ==
    \E p \in 0..(Len(text) - Len(s)) : SubSeq(text, p + 1, p + Len(s)) = s

(* C13 (amended): a base of which exactly one level L was attained has no  *)
(* finding when L is 1, and has the finding that lists 1..L-1 as missing   *)
(* when L is above 1, in the detail view and in the violation string.      *)
C13_SingleLevel ==
    /\ pc = "detail" =>
         \A b \in SingleLevelBases :
            /\ TheLevel(b) = 1 =>
                 \A i \in 1..Len(checks[1].seq) : checks[1].seq[i].base # b
            /\ TheLevel(b) > 1 =>
                 \E i \in 1..Len(checks[1].seq) :
                    /\ checks[1].seq[i].base = b
                    /\ checks[1].seq[i].missing
                         = [l \in 1..(TheLevel(b) - 1) |-> l]
    /\ pc = "built" =>
         \A b \in SingleLevelBases :
            Occurs(b \o LitNurak, checks[1].text) <=> TheLevel(b) > 1

(* One base is held at level I only and has no finding, another at level   *)
(* II only and is reported with level 1 missing.                           *)
C13_Witness ==
    /\ pc = "detail"
    /\ \E b \in SingleLevelBases : TheLevel(b) = 1
    /\ \E b \in SingleLevelBases : TheLevel(b) = 2
    /\ Len(checks[1].seq) = 1
    /\ checks[1].seq[1].missing = <<1>>

(* C13 as stated: a base of which exactly one level was attained has no    *)
(* finding, whatever the level.                                            *)
C13_SingleLevelNoFinding ==
    /\ pc = "detail" =>
         \A b \in SingleLevelBases :
            \A i \in 1..Len(checks[1].seq) : checks[1].seq[i].base # b
    /\ pc = "built" =>
         \A b \in SingleLevelBases : ~Occurs(b \o LitNurak, checks[1].text)

---------------------------------------------------------------------------
SeqFires == \E b \in Bases : Gaps(b) # {}
ExplicitFires ==
    \E i \in 1..Len(PREREQS) :
        Held(PREREQS[i].k) /\ NotHeld(PREREQS[i].v) # <<>>
Bars(text) == { p \in 1..Len(text) : text[p] = "|" }

(* C14: the text buildChecks returns is empty exactly when neither the     *)
(* sequence check nor the explicit check has a finding; otherwise it holds *)
(* one clause per check that has one, the sequence clause first, with the  *)
(* delimiter " | " between the two and nowhere else.                       *)
C14_Clauses ==
    pc = "built" =>
      LET text == checks[1].text
      IN  /\ text = <<>> <=> (~SeqFires /\ ~ExplicitFires)
          /\ IsPrefix(LitRomanPrefix, text) <=> SeqFires
          /\ Occurs(LitSeonsu, text) <=> ExplicitFires
          /\ Cardinality(Bars(text))
               = (IF SeqFires /\ ExplicitFires THEN 1 ELSE 0)
          /\ \A p \in Bars(text) :
               /\ SubSeq(text, p - 1, p + 1) = LitBar
               /\ p - 1 > Len(LitRomanPrefix)
               /\ p + 1 < Len(text)
               /\ \A q \in 1..(p - 1) : text[q] # "seon"
               /\ \A q \in (p + 1)..Len(text) : text[q] # "ro"
          /\ ~IsPrefix(LitBar, text)
          /\ ~EndsWith(text, LitBar)

(* Both checks have a finding and the text holds both clauses. *)
C14_Witness ==
    /\ pc = "built"
    /\ SeqFires /\ ExplicitFires
    /\ Cardinality(Bars(checks[1].text)) = 1
    /\ IsPrefix(LitRomanPrefix, checks[1].text)

---------------------------------------------------------------------------
LastNonSpace(t) == Trim(t)[Len(Trim(t))]

(* The ways to read the name s as a text t followed by a numeral n of the  *)
(* table, t holding something besides white space and not ending, white    *)
(* space aside, in a Roman letter: k is the length of t.                   *)
AnchoredSplits(s) ==
    { k \in 1..Len(s) :
        /\ SubSeq(s, k + 1, Len(s)) \in TableNumerals
        /\ Trim(SubSeq(s, 1, k)) # <<>>
        /\ LastNonSpace(SubSeq(s, 1, k)) \notin RomanLetters }

(* C15: a name t n or t ' ' n, with n a numeral of the table and t a text  *)
(* whose last non-space character is no Roman letter, parses to the base   *)
(* trim(t), normalised, and the level of n; a name that is a numeral and   *)
(* nothing else is absent.                                                 *)
C15_Anchored ==
    (pc = "parsed" /\ pname # Null) =>
        /\ \A k \in AnchoredSplits(pname[1]) :
             parsed
               = Some([base |-> NFKC(Trim(SubSeq(pname[1], 1, k))),
                       level |-> RomanLevel(SubSeq(pname[1], k + 1,
                                                   Len(pname[1])))])
        /\ Trim(pname[1]) \in TableNumerals => parsed = Null

---------------------------------------------------------------------------
NormKey(i) == normCourseName(Some(rawPrereqs[i].k))
KeyIsEmpty(i) == NormKey(i) = Null \/ NormKey(i) = Some(<<>>)
LastWith(nk) == Max({ j \in 1..Len(rawPrereqs) : NormKey(j) = nk })

(* The requirement names of raw entry j, normalised, those that normalise  *)
(* to nothing left out.                                                    *)
NormalizedReqs(j) ==
    LET all == [i \in 1..Len(rawPrereqs[j].v) |->
                  normCourseName(Some(rawPrereqs[j].v[i]))]
        kept == SelectSeq(all, LAMBDA x : x # Null /\ x # Some(<<>>))
    IN  [i \in 1..Len(kept) |-> kept[i][1]]

(* C16: the table holds, for each raw key that normalises to a non-empty   *)
(* name, the normalised requirements of the last raw entry whose key       *)
(* normalises to that name; it holds one entry per such name and none for  *)
(* a key that normalises to nothing.                                       *)
C16_LastWriteWins ==
    /\ \A i \in 1..Len(rawPrereqs) :
         ~KeyIsEmpty(i) =>
            /\ MapHas(PREREQS, NormKey(i)[1])
            /\ MapGet(PREREQS, NormKey(i)[1])
                 = NormalizedReqs(LastWith(NormKey(i)))
    /\ \A e \in 1..Len(PREREQS) :
         /\ PREREQS[e].k # <<>>
         /\ \E i \in 1..Len(rawPrereqs) : NormKey(i) = Some(PREREQS[e].k)
         /\ \A f \in 1..Len(PREREQS) : PREREQS[f].k = PREREQS[e].k => f = e

(* Two raw keys normalise to one name and a third to nothing: the table    *)
(* has the one entry, with the requirements of the later raw entry.        *)
C16_Witness ==
    /\ Len(rawPrereqs) = 3
    /\ \E i \in 1..3 : KeyIsEmpty(i)
    /\ \E i, j \in 1..3 :
         /\ i < j /\ ~KeyIsEmpty(i) /\ NormKey(i) = NormKey(j)
         /\ NormalizedReqs(i) # NormalizedReqs(j)
         /\ MapGet(PREREQS, NormKey(i)[1]) = NormalizedReqs(j)
    /\ Len(PREREQS) = 1

---------------------------------------------------------------------------
(* The label with every symbol of the middle-dot set written as the        *)
(* designated separator.                                                   *)
WithDesignatedDot(s) == ReplaceClass(s, MiddleDots, "kdot")

(* C17: every symbol of the middle-dot set ends up as the designated       *)
(* separator: a label canonicalises to the same label as the one that      *)
(* differs from it only in being written with the designated separator.    *)
C17_DotsUnified ==
    (pc = "canon" /\ raw # Null) =>
        canon1 = canonGroup(Some(WithDesignatedDot(raw[1])))

(* The same for the symbols of the set other than U+318D. *)
C17_DotsUnifiedButAraea ==
    (pc = "canon" /\ raw # Null /\ \A i \in 1..Len(raw[1]) : raw[1][i] # "araea") =>
        canon1 = canonGroup(Some(WithDesignatedDot(raw[1])))

---------------------------------------------------------------------------
(* The cells of the header between the identity and the trailing columns. *)
ExportGroupColumns == SubSeq(Header, 5, Len(Header) - 5)

(* a.localeCompare(b, 'ko') < 0 *)
ComesFirst(a, b) == LexLess(CollKey(a), CollKey(b))

(* C18: the group columns of the export are the canonGroup values of all   *)
(* rows of the dataset, rows without a student key included, each once and *)
(* in sorted order; the cell of a student for a group that none of the     *)
(* student's rows belongs to is 0.                                         *)
C18_GroupColumns ==
    aoa # Null =>
      /\ SeqToSet(ExportGroupColumns) = DatasetGroups
      /\ \A i, j \in 1..Len(ExportGroupColumns) :
           i < j => ComesFirst(ExportGroupColumns[i], ExportGroupColumns[j])
      /\ \A k \in 1..Len(Records) :
           \A j \in 1..Len(ExportGroupColumns) :
              InGroup(TripleOf(Records[k]), ExportGroupColumns[j]) = {}
                 => Records[k][4 + j] = 0

(* Three rows with three groups that arrive out of order, one of them only *)
(* on a row without a student key: three sorted columns, and 0 in every    *)
(* cell of a student with no row of the column's group.                    *)
C18_Witness ==
    /\ aoa # Null
    /\ Len(data) = 3
    /\ ~HasKey(data[1]) /\ HasKey(data[2]) /\ HasKey(data[3])
    /\ canonGroup(data[1].gyogwa) = Gita
    /\ canonGroup(data[2].gyogwa) = GroupTarget
    /\ canonGroup(data[3].gyogwa) = Gugeo
    /\ ExportGroupColumns = <<Gugeo, GroupTarget, Gita>>
    /\ Len(Records) = 2
    /\ \E k \in 1..2 :
         /\ Records[k][5] # 0 /\ Records[k][6] = 0 /\ Records[k][7] = 0
    /\ \E k \in 1..2 :
         /\ Records[k][5] = 0 /\ Records[k][6] # 0 /\ Records[k][7] = 0

---------------------------------------------------------------------------
NonNegative(t) == \A i \in RowsOf(t) : CreditAt(i) >= 0

(* C19: for a student whose credits are all non-negative the foundation    *)
(* sum and the Korean-History sum together never exceed the total, no row  *)
(* being counted in both, and the ratio lies between 0 and 100 percent.    *)
C19_RatioBounded ==
    aoa # Null =>
      \A k \in 1..Len(Records) :
         NonNegative(TripleOf(Records[k])) =>
            /\ FoundationRows(TripleOf(Records[k]))
                 \cap KhRows(TripleOf(Records[k])) = {}
            /\ BaseCell(Records[k]) + KhCell(Records[k]) <= TotalCell(Records[k])
            /\ PctCell(Records[k]) >= 0
            /\ PctCell(Records[k]) <= 1000

(* The same for the students none of whose rows is at once in a            *)
(* foundation group and a Korean-History course.                           *)
C19_RatioBoundedWhenDisjoint ==
    aoa # Null =>
      \A k \in 1..Len(Records) :
         (/\ NonNegative(TripleOf(Records[k]))
          /\ FoundationRows(TripleOf(Records[k]))
               \cap KhRows(TripleOf(Records[k])) = {}) =>
            /\ BaseCell(Records[k]) + KhCell(Records[k]) <= TotalCell(Records[k])
            /\ PctCell(Records[k]) >= 0
            /\ PctCell(Records[k]) <= 1000

(* Sum of the group cells of a record. *)
RECURSIVE GroupCellSum(_, _)
GroupCellSum(rec, n) ==
    IF n = 0 THEN 0 ELSE GroupCell(rec, n) + GroupCellSum(rec, n - 1)

(* C20: in every record of the export the group cells add up to the total  *)
(* cell, and every row of the student lies in exactly one group column.    *)
C20_GroupsAddUp ==
    aoa # Null =>
      \A k \in 1..Len(Records) :
         /\ GroupCellSum(Records[k], NumGroups) = TotalCell(Records[k])
         /\ \A i \in RowsOf(TripleOf(Records[k])) :
              Cardinality({ j \in 1..NumGroups :
                              Header[4 + j] = canonGroup(data[i].gyogwa) }) = 1

(* Rows (A, 3) and (B, 4) of one student and a row (A, 3) of another:     *)
(* 3 + 4 = 7 in the one record and 3 + 0 = 3 in the other.                 *)
C20_Witness ==
    /\ aoa # Null
    /\ Len(data) = 3
    /\ NumGroups = 2
    /\ Len(Records) = 2
    /\ \E k \in 1..2 :
         /\ Cardinality(RowsOf(TripleOf(Records[k]))) = 2
         /\ TotalCell(Records[k]) = 7
         /\ { GroupCell(Records[k], j) : j \in 1..2 } = {3, 4}
    /\ \E k \in 1..2 :
         /\ TotalCell(Records[k]) = 3
         /\ { GroupCell(Records[k], j) : j \in 1..2 } = {0, 3}

---------------------------------------------------------------------------
(* C22: the two UI variants implement the same canonGroup: for every raw   *)
(* label both return the same canonical label.                             *)
C22_SameCanonGroup == pc = "both" => canonOther = canon1

(* The same for the labels other than the spellings of one alias. *)
C22_SameButOneAlias ==
    (pc = "both" /\ canon1 # canonOther) =>
        /\ raw # Null
        /\ StripWs(NormalizeGroup(Trim(raw[1])))
             = <<"je", "2", "oe", "guk", "eo", "/", "han", "mun">>
        /\ canon1 = GroupTarget
        /\ canonOther = NormalizeGroup(Trim(raw[1]))

---------------------------------------------------------------------------
(* The selected key is the key of a student of the selected class. *)
SelectedInClass ==
    /\ klass # Null
    /\ \E i \in 1..Len(data) :
         /\ HasKey(data[i])
         /\ keyOf(data[i]) = selected[1]
         /\ classKey(data[i].hakNyeon[1], data[i].ban[1]) = klass[1]

(* byStudent.detail finds the selected key. *)
DetailFound == \E k \in 1..Len(byStudent) : byStudent[k].key = selected[1]

FilteredKeys ==
    { filteredStudents(students, query)[i].key :
        i \in 1..Len(filteredStudents(students, query)) }

(* C21: the selected student is none or a student of the selected class in *)
(* the loaded dataset, whose detail is found.                              *)
C21_SelectionSafe ==
    selected # Null => (SelectedInClass /\ DetailFound)

(* The same for datasets whose grade and class numbers are not negative. *)
C21_SelectionSafeNonNegative ==
    (/\ selected # Null
     /\ \A i \in 1..Len(data) :
          /\ data[i].hakNyeon # Null => data[i].hakNyeon[1] >= 0
          /\ data[i].ban # Null => data[i].ban[1] >= 0)
       => (SelectedInClass /\ DetailFound)

(* The detail of the selected student is found in every dataset. *)
C21_DetailFound == selected # Null => DetailFound

(* A file load clears class and selection, a class change clears the       *)
(* selection, and a selection that changes to a student changes to one of  *)
(* the filtered list.                                                      *)
C21_Steps ==
    [][/\ (pc = "file" /\ pc' = "loaded") => (klass' = Null /\ selected' = Null)
       /\ klass' # klass => selected' = Null
       /\ (selected' # selected /\ selected' # Null)
             => selected'[1] \in FilteredKeys]_vars

====
